---- MODULE Spec2Model ----
(***************************************************************************)
(* The particle background (ParticlePhysics in js/main.js, its older       *)
(* variant ParticleNetwork in js/particles.js) and the scroll reveal       *)
(* observer (ScrollAnimator in js/scroll-animations.js) as state machines. *)
(*                                                                         *)
(* Numbers.  JavaScript numbers are modelled in fixed point: lengths and   *)
(* velocities are integers counting 1/Scale of a pixel, angles are         *)
(* milliradians, Math.random() results and the fractional configuration    *)
(* constants are hundredths.  Every multiplication by a fraction is an     *)
(* integer multiplication followed by a division that truncates toward     *)
(* zero (Div); Math.sqrt is the integer square root (Sqrt).                *)
(*                                                                         *)
(* Methods of the classes are operators from a world record to a world     *)
(* record (World gathers the variables a method may touch, Commit writes   *)
(* them back), so that a handler calling start(), which calls animate(),   *)
(* which calls updateParticles(), is one atomic action, as it is on the    *)
(* single JavaScript thread.                                               *)
(***************************************************************************)
EXTENDS Integers, Sequences, FiniteSets, TLC

VARIABLES
    cls,            \* which class window.ParticleNetwork names
    reducedMotion,  \* matchMedia('(prefers-reduced-motion: reduce)').matches
    hidden,         \* document.hidden
    win,            \* window.innerWidth / window.innerHeight (pixels)
    now,            \* Date.now(), milliseconds
    pc,             \* "constructed" until init() has been called, "destroyed"
                    \*   once destroy() has been
    canvas,         \* canvas.width, canvas.height (pixels), canvas.style.display
    particles,      \* this.particles
    mouse,          \* this.mouse (ParticlePhysics) / this.mousePosition (ParticleNetwork)
    animationId,    \* this.animationId, 0 for null
    isRunning,      \* this.isRunning
    resizeTimeout,  \* the closure variable resizeTimeout of bindEvents, 0 for undefined
    listeners,      \* TRUE once bindEvents() has registered the listeners
    rafCallbacks,   \* the browser's list of pending animation frame callbacks (handles)
    rafNext,        \* the next handle requestAnimationFrame returns
    timers,         \* the browser's pending timeouts: records [id, due]
    timerNext,      \* the next id setTimeout returns
    stepCount,      \* history: number of physics steps (and render passes) executed
    stepIn,         \* history: the handler inside which the last step ran
    call,           \* history: the start()/stop() call made by that handler, and
                    \*          whether the loop was running when it was made
    burst,          \* history: the current burst of resize events
    lastStep,       \* history: per particle, what the last step did to it
    vis,            \* history: the visibilitychange events the listener has handled
    rendered,       \* history: the render passes of the last frame on the present
                    \*          collection, in order, each with the positions the
                    \*          collection had when the pass ran
    saPc,           \* ScrollAnimator: "constructed" until init() has been called
    elVisible,      \* the elements whose classList contains 'visible'
    observing,      \* observer name -> the targets it observes
    intersecting,   \* observer name -> target -> what the observer last computed
                    \*   for it: "unknown" before the first computation, "in", "out"
    ioQueue,        \* observer name -> queued IntersectionObserverEntry records
    reveals,        \* history: element -> number of false -> true changes of the flag
    seen            \* history: observer name -> the targets its callback has
                    \*   received an intersecting entry for

simVars == <<canvas, particles, mouse, animationId, isRunning, resizeTimeout, listeners>>
envVars == <<cls, reducedMotion, hidden, win, now, pc>>
browserVars == <<rafCallbacks, rafNext, timers, timerNext>>
histVars == <<stepCount, stepIn, call, burst, lastStep, vis, rendered>>
scrollVars == <<saPc, elVisible, observing, intersecting, ioQueue, reveals, seen>>
vars == <<simVars, envVars, browserVars, histVars, scrollVars>>

(***************************************************************************)
(* Bounds of the model.                                                    *)
(***************************************************************************)
Scale == 100          \* fixed-point units per pixel
particleCount == 2    \* this.particleCount (250 and 60 in the source)
MaxSteps == 3         \* physics steps explored from construction
MaxTimers == 2        \* setTimeout calls (resize events handled) per behaviour
TickMs == 100         \* the clock advances by this much at a time (ms)
MaxQueue == 2         \* entries an IntersectionObserver queues between two deliveries

(***************************************************************************)
(* Configuration constants of the source, fractions in hundredths.         *)
(***************************************************************************)
friction == 98             \* 0.98
attractionStrength == 120  \* 1.2
returnStrength == 1        \* 0.01
maxSpeed == 8              \* pixels per frame
ambientForce == 2          \* 0.02
mouseRadius == 150         \* pixels
hoverRepulsion == 30       \* 0.3
bounceFactor == 50         \* the 0.5 of "*= -0.5"
debounceDelay == 200       \* ms

\* the clock stops advancing here: one tick after a timeout set at 0 is due
MaxTime == debounceDelay + TickMs
netMouseRadius == 100      \* pixels (ParticleNetwork)
netPush == 2               \* 0.02 (ParticleNetwork)
netMaxVel == 50            \* 0.5 pixels per frame (ParticleNetwork)
netWrapMargin == 10        \* pixels (ParticleNetwork)

null == {}
Val(o) == CHOOSE v \in o : TRUE

(***************************************************************************)
(* Arithmetic.                                                             *)
(***************************************************************************)
Abs(a) == IF a < 0 THEN -a ELSE a
Sign(a) == IF a < 0 THEN -1 ELSE IF a > 0 THEN 1 ELSE 0
Max(a, b) == IF a >= b THEN a ELSE b
Min(a, b) == IF a <= b THEN a ELSE b

\* a / b for b > 0, truncated toward zero
Div(a, b) == IF a >= 0 THEN a \div b ELSE -((-a) \div b)

RECURSIVE SqrtBetween(_, _, _)
SqrtBetween(n, lo, hi) ==
    IF lo >= hi THEN lo
    ELSE LET mid == (lo + hi + 1) \div 2
         IN IF mid * mid <= n THEN SqrtBetween(n, mid, hi)
            ELSE SqrtBetween(n, lo, mid - 1)

\* Math.sqrt(n), rounded down to a whole unit
Sqrt(n) == SqrtBetween(n, 0, 46340)

\* Math.sin of an angle in milliradians, in thousandths (Bhaskara's
\* approximation 16x(pi-x) / (5pi^2 - 4x(pi-x)) on [0, pi], odd and periodic)
SinHalf(x) ==
    LET t == (x * (3142 - x)) \div 1000
    IN (16 * t * 1000) \div (49348 - 4 * t)

Sin(a) ==
    LET r == a % 6284
    IN IF r <= 3142 THEN SinHalf(r) ELSE -SinHalf(r - 3142)

Cos(a) == Sin(a + 1571)

(***************************************************************************)
(* Inputs.                                                                 *)
(***************************************************************************)
Classes == {"ParticlePhysics", "ParticleNetwork"}

\* window sizes in pixels
WindowSizes ==
    { [innerWidth |-> 100, innerHeight |-> 100],
      [innerWidth |-> 300, innerHeight |-> 54] }

\* clientX, clientY of pointer and touch events
PointerPositions == { <<50, 50>> }

\* the results of the successive Math.random() calls that seed one particle,
\* in hundredths
MiddleDraws == <<50, 50, 50, 50, 50, 50, 25>>
CornerDraws == <<0, 0, 0, 0, 99, 0, 0>>

Draws == {MiddleDraws, CornerDraws}

\* the draws of one createParticles(): the two kinds alternate along the
\* collection, starting with either
SeedChoices ==
    { [i \in 1..particleCount |-> IF (i + k) % 2 = 0 THEN MiddleDraws ELSE CornerDraws] :
          k \in 0..1 }

(***************************************************************************)
(* The world a method runs in.                                             *)
(***************************************************************************)
World ==
    [ canvas |-> canvas, particles |-> particles, mouse |-> mouse,
      animationId |-> animationId, isRunning |-> isRunning,
      resizeTimeout |-> resizeTimeout, listeners |-> listeners,
      rafCallbacks |-> rafCallbacks, rafNext |-> rafNext,
      timers |-> timers, timerNext |-> timerNext,
      stepCount |-> stepCount, stepIn |-> stepIn, call |-> call,
      burst |-> burst, lastStep |-> lastStep, vis |-> vis, rendered |-> rendered,
      handler |-> "none" ]

Commit(w) ==
    /\ canvas' = w.canvas
    /\ particles' = w.particles
    /\ mouse' = w.mouse
    /\ animationId' = w.animationId
    /\ isRunning' = w.isRunning
    /\ resizeTimeout' = w.resizeTimeout
    /\ listeners' = w.listeners
    /\ rafCallbacks' = w.rafCallbacks
    /\ rafNext' = w.rafNext
    /\ timers' = w.timers
    /\ timerNext' = w.timerNext
    /\ stepCount' = w.stepCount
    /\ stepIn' = w.stepIn
    /\ call' = w.call
    /\ burst' = w.burst
    /\ lastStep' = w.lastStep
    /\ vis' = w.vis
    /\ rendered' = w.rendered

\* the world on entry of handler h
NoCall == [name |-> "none", wasRunning |-> FALSE]
Enter(h) == [World EXCEPT !.handler = h, !.call = NoCall]

(***************************************************************************)
(* Browser services.                                                       *)
(***************************************************************************)
\* requestAnimationFrame(cb): the handle returned is w.rafNext
requestAnimationFrame(w) ==
    [w EXCEPT !.rafCallbacks = @ \cup {w.rafNext}, !.rafNext = @ + 1]

cancelAnimationFrame(w, id) == [w EXCEPT !.rafCallbacks = @ \ {id}]

\* setTimeout(cb, delay): the id returned is w.timerNext
setTimeout(w, delay) ==
    [w EXCEPT !.timers = @ \cup {[id |-> w.timerNext, due |-> now + delay]},
              !.timerNext = @ + 1]

clearTimeout(w, id) == [w EXCEPT !.timers = {t \in @ : t.id # id}]

(***************************************************************************)
(* resize() and createParticles().                                         *)
(***************************************************************************)
resize(w) ==
    [w EXCEPT !.canvas.width = win.innerWidth, !.canvas.height = win.innerHeight]

\* one particle of ParticlePhysics.createParticles from its Math.random() draws d
PhysicsParticle(cv, d) ==
    LET x == Div(d[1] * cv.width * Scale, 100)
        y == Div(d[2] * cv.height * Scale, 100)
    IN [ x |-> x, y |-> y, originX |-> x, originY |-> y, vx |-> 0, vy |-> 0,
         radius |-> Div(d[3] * 250 * Scale, 10000) + Div(150 * Scale, 100),
         mass |-> Div(d[4] * 50, 100) + 50,
         hue |-> Div(d[5] * 60, 100) + 220,
         opacity |-> Div(d[6] * 50, 100) + 50,
         phase |-> Div(d[7] * 6283, 100) ]

\* one particle of ParticleNetwork.createParticles; nan is 0 for a particle
\* whose numbers are numbers, 1 once vx and vy are NaN, 2 once x and y are too
NetworkParticle(cv, d) ==
    [ x |-> Div(d[1] * cv.width * Scale, 100),
      y |-> Div(d[2] * cv.height * Scale, 100),
      vx |-> Div((d[3] - 50) * 30 * Scale, 10000),
      vy |-> Div((d[4] - 50) * 30 * Scale, 10000),
      radius |-> Div(d[5] * 150 * Scale, 10000) + Div(50 * Scale, 100),
      opacity |-> Div(d[6] * 50, 100) + 20,
      nan |-> 0 ]

createParticles(w, seeds) ==
    [w EXCEPT !.particles =
        [i \in 1..particleCount |->
            IF cls = "ParticlePhysics" THEN PhysicsParticle(w.canvas, seeds[i])
            ELSE NetworkParticle(w.canvas, seeds[i])],
              !.lastStep = <<>>, !.rendered = <<>>]

(***************************************************************************)
(* ParticlePhysics.updateParticles.  Each block of the loop body is an     *)
(* operator that receives the values the block reads.                      *)
(***************************************************************************)
PointerPart(within, dx, dy, distance, isDown, ix, iy) ==
    [within |-> within, dx |-> dx, dy |-> dy, distance |-> distance,
     isDown |-> isDown, ix |-> ix, iy |-> iy]

\* the two branches on this.mouse.isDown; fx and fy are Math.cos(angle) * force
\* and Math.sin(angle) * force in thousandths, mass in hundredths
attract(fx, fy, mass) ==
    <<Div(fx * attractionStrength * mass * Scale, 10000000),
      Div(fy * attractionStrength * mass * Scale, 10000000)>>

\* the hover branch with the signs of the engaged branch
repelSameSign(fx, fy) ==
    <<Div(fx * hoverRepulsion * Scale, 100000),
      Div(fy * hoverRepulsion * Scale, 100000)>>

repel(fx, fy) ==
    <<-Div(fx * hoverRepulsion * Scale, 100000),
      -Div(fy * hoverRepulsion * Scale, 100000)>>

pointerPush(fx, fy, isDown, mass) ==
    IF isDown THEN attract(fx, fy, mass) ELSE repel(fx, fy)

\* Math.cos(Math.atan2(dy, dx)) and Math.sin(Math.atan2(dy, dx)), thousandths:
\* dx / distance and dy / distance; Math.atan2(0, 0) is 0
cosAtan2(dx, distance) == IF distance = 0 THEN 1000 ELSE Div(dx * 1000, distance)
sinAtan2(dy, distance) == IF distance = 0 THEN 0 ELSE Div(dy * 1000, distance)

\* force = (this.mouse.radius - distance) / this.mouse.radius, thousandths
falloff(distance, radius) == Div((radius - distance) * 1000, radius)

pushWith(dx, dy, distance, isDown, mass, force) ==
    pointerPush(Div(cosAtan2(dx, distance) * force, 1000),
                Div(sinAtan2(dy, distance) * force, 1000), isDown, mass)

withinRadius(dx, dy, distance, isDown, push) ==
    PointerPart(TRUE, dx, dy, distance, isDown, push[1], push[2])

\* radius is this.mouse.radius in pixels
forceAt(dx, dy, distance, isDown, mass, radius) ==
    IF distance < radius * Scale
    THEN withinRadius(dx, dy, distance, isDown,
             pushWith(dx, dy, distance, isDown, mass,
                      falloff(distance, radius * Scale)))
    ELSE PointerPart(FALSE, dx, dy, distance, isDown, 0, 0)

forceFrom(dx, dy, isDown, mass, radius) ==
    forceAt(dx, dy, Sqrt(dx * dx + dy * dy), isDown, mass, radius)

\* the pointer's contribution to the velocity of p ("Calculate distance to
\* mouse" and "Mouse interaction")
mouseForce(p, m) ==
    IF m.x = null
    THEN PointerPart(FALSE, 0, 0, 0, m.isDown, 0, 0)
    ELSE forceFrom(Val(m.x) * Scale - p.x, Val(m.y) * Scale - p.y, m.isDown, p.mass,
                   m.radius)

\* Math.sqrt(p.vx * p.vx + p.vy * p.vy)
Speed(vx, vy) == Sqrt(vx * vx + vy * vy)

rescale(v, speed) ==
    IF speed > maxSpeed * Scale
    THEN <<Div(v[1] * maxSpeed * Scale, speed), Div(v[2] * maxSpeed * Scale, speed)>>
    ELSE v

\* a step without "Limit speed"
limitSpeedOff(v) == v

\* "Limit speed"
limitSpeed(v) == rescale(v, Speed(v[1], v[2]))

\* "Boundary bounce" of one coordinate: <<position, velocity>>
bounce(pos, vel, limit) ==
    IF pos < 0 \/ pos > limit
    THEN <<Max(0, Min(limit, pos)), -Div(vel * bounceFactor, 100)>>
    ELSE <<pos, vel>>

\* "Ambient motion", time in milliseconds
ambient(p, time) ==
    <<Div(Sin(Div(time * 5, 10) + p.phase) * ambientForce * Scale, 100000),
      Div(Cos(Div(time * 3, 10) + p.phase) * ambientForce * Scale, 100000)>>

\* "Return to origin" and "Apply friction" on the velocity v
springAndFriction(p, v) ==
    <<Div((v[1] + Div((p.originX - p.x) * returnStrength, 100)) * friction, 100),
      Div((v[2] + Div((p.originY - p.y) * returnStrength, 100)) * friction, 100)>>

addForces(p, a, f) == springAndFriction(p, <<p.vx + a[1] + f.ix, p.vy + a[2] + f.iy>>)

\* the velocity of p after the ambient motion, the pointer, the spring to the
\* origin and the friction
accelerate(p, m, time) == addForces(p, ambient(p, time), mouseForce(p, m))

\* a step that also moves the origin to where the particle lands
placedReanchored(p, bx, by) ==
    [p EXCEPT !.x = bx[1], !.vx = bx[2], !.y = by[1], !.vy = by[2],
              !.originX = bx[1], !.originY = by[1]]

placed(p, bx, by) == [p EXCEPT !.x = bx[1], !.vx = bx[2], !.y = by[1], !.vy = by[2]]

\* "Update position" and "Boundary bounce" with the limited velocity v
moveAndBounce(p, v, cv) ==
    placed(p, bounce(p.x + v[1], v[1], cv.width * Scale),
              bounce(p.y + v[2], v[2], cv.height * Scale))

\* the body of the forEach of updateParticles
updateParticle(p, m, cv, time) ==
    moveAndBounce(p, limitSpeed(accelerate(p, m, time)), cv)

\* history of one particle's step: the pointer's part, the speed before
\* "Limit speed", position and velocity before "Boundary bounce"
stepRecordOf(p, pointer, speed, v) ==
    [pointer |-> pointer, speed |-> speed,
     x |-> p.x + v[1], y |-> p.y + v[2], vx |-> v[1], vy |-> v[2]]

stepRecordFrom(p, pointer, a) ==
    stepRecordOf(p, pointer, Speed(a[1], a[2]), limitSpeed(a))

StepRecord(p, m, time) ==
    stepRecordFrom(p, mouseForce(p, m), accelerate(p, m, time))

updateParticles(w) ==
    [w EXCEPT !.particles =
        [i \in 1..Len(w.particles) |->
            updateParticle(w.particles[i], w.mouse, w.canvas, now)],
              !.lastStep =
        [i \in 1..Len(w.particles) |-> StepRecord(w.particles[i], w.mouse, now)]]

(***************************************************************************)
(* The render passes.  A pass changes no state of the simulation; the      *)
(* history keeps its name and the positions the collection had when it ran.*)
(***************************************************************************)
Positions(ps) == [i \in 1..Len(ps) |-> <<ps[i].x, ps[i].y>>]

drawPass(w, name) ==
    [w EXCEPT !.rendered = Append(@, [pass |-> name, at |-> Positions(w.particles)])]

\* this.ctx.clearRect(...): the frame starts with nothing drawn
clearRect(w) == [w EXCEPT !.rendered = <<>>]

drawConnections(w) == drawPass(w, "connections")

drawParticles(w) == drawPass(w, "particles")

\* the pointer overlay, drawn for a present and engaged pointer
drawMouseEffect(w) ==
    IF w.mouse.x = null \/ w.mouse.y = null THEN w
    ELSE IF w.mouse.isDown THEN drawPass(w, "pointer") ELSE w

(***************************************************************************)
(* The per-particle body of ParticleNetwork.animate.                       *)
(***************************************************************************)
\* "Wrap around edges smoothly" of one coordinate: the two ifs in turn
wrapHigh(pos, limit, margin) == IF pos > limit + margin THEN -margin ELSE pos

wrap(pos, limit, margin) ==
    wrapHigh(IF pos < -margin THEN limit + margin ELSE pos, limit, margin)

\* "Limit velocity"
limitVelocity(q, maxVel) ==
    [q EXCEPT !.vx = Max(-maxVel, Min(maxVel, q.vx)),
              !.vy = Max(-maxVel, Min(maxVel, q.vy))]

\* "Mouse interaction - gentle push" at distance dist > 0, force in thousandths
pushed(q, dx, dy, dist, force) ==
    [q EXCEPT !.vx = @ + Div(Div(Div(dx * 1000, dist) * force, 1000)
                               * netPush * Scale, 100000),
              !.vy = @ + Div(Div(Div(dy * 1000, dist) * force, 1000)
                               * netPush * Scale, 100000)]

\* dx / dist with dx = dist = 0 is NaN: vx and vy become NaN, and
\* Math.max(-maxVel, Math.min(maxVel, NaN)) is NaN
pushAt(q, dx, dy, dist, radius) ==
    IF dist >= radius THEN q
    ELSE IF dist = 0 THEN [q EXCEPT !.nan = 1, !.vx = 0, !.vy = 0]
    ELSE pushed(q, dx, dy, dist, falloff(dist, radius))

pushFrom(q, dx, dy) ==
    pushAt(q, dx, dy, Sqrt(dx * dx + dy * dy), netMouseRadius * Scale)

mousePush(q, m) ==
    IF m.x = null THEN q
    ELSE pushFrom(q, q.x - Val(m.x) * Scale, q.y - Val(m.y) * Scale)

limitUnlessNaN(q) ==
    IF q.nan # 0 THEN q ELSE limitVelocity(q, Div(netMaxVel * Scale, 100))

\* the body of the forEach of animate, up to the drawing of the particle.
\* A particle whose velocity is NaN gets a NaN position; every comparison
\* with NaN is false, so nothing else changes it.
networkParticle(p, m, cv) ==
    IF p.nan = 2 THEN p
    ELSE IF p.nan = 1 THEN [p EXCEPT !.nan = 2, !.x = 0, !.y = 0]
    ELSE limitUnlessNaN(mousePush(
            [p EXCEPT !.x = wrap(p.x + p.vx, cv.width * Scale, netWrapMargin * Scale),
                      !.y = wrap(p.y + p.vy, cv.height * Scale, netWrapMargin * Scale)],
            m))

\* the forEach of animate from particle i on: each particle is updated and
\* then drawn before the next one is updated
RECURSIVE networkForEach(_, _)
networkForEach(w, i) ==
    IF i > Len(w.particles) THEN w
    ELSE networkForEach(
            drawPass([w EXCEPT !.particles[i] = networkParticle(@, w.mouse, w.canvas)],
                     "particle"),
            i + 1)

networkParticles(w) == networkForEach(w, 1)

(***************************************************************************)
(* animate(), start(), stop().                                             *)
(***************************************************************************)
\* one frame: the step (and the render passes, which change no state of the
\* model), then the request of the next frame.  The history records that a
\* step ran and the handler it ran in.
\* a frame that does not keep the handle of the frame it requests
scheduledUnrecorded(w, u, handle) ==
    [requestAnimationFrame(u) EXCEPT !.stepCount = @ + 1, !.stepIn = w.handler]

scheduled(w, u, handle) ==
    [requestAnimationFrame(u) EXCEPT !.animationId = handle,
                                     !.stepCount = @ + 1, !.stepIn = w.handler]

\* the body of animate() between the test of isRunning and the request of
\* the next frame
stepped(w) ==
    IF cls = "ParticlePhysics"
    THEN drawMouseEffect(drawParticles(drawConnections(updateParticles(clearRect(w)))))
    ELSE drawConnections(networkParticles(clearRect(w)))

animate(w) ==
    IF ~w.isRunning THEN w ELSE scheduled(w, stepped(w), w.rafNext)

\* start() without its test of isRunning
startUnguarded(w) == animate([w EXCEPT !.isRunning = TRUE])

start(w) ==
    IF ~w.isRunning THEN animate([w EXCEPT !.isRunning = TRUE]) ELSE w

\* stop() that leaves the pending frame callback in place
stopWithoutCancel(w) == [w EXCEPT !.isRunning = FALSE]

stop(w) ==
    LET u == [w EXCEPT !.isRunning = FALSE]
    IN IF u.animationId # 0 THEN cancelAnimationFrame(u, u.animationId) ELSE u

\* destroy(): the collection is replaced by an empty one
destroy(w) == [stop(w) EXCEPT !.particles = <<>>, !.lastStep = <<>>, !.rendered = <<>>]

(***************************************************************************)
(* bindEvents(): the listeners.                                            *)
(***************************************************************************)
bindEvents(w) == [w EXCEPT !.listeners = TRUE]

\* the 'resize' listener without its clearTimeout
onResizeWithoutClear(w) ==
    [setTimeout(w, debounceDelay) EXCEPT !.resizeTimeout = w.timerNext]

\* the 'resize' listener
onResize(w) ==
    LET c == clearTimeout(w, w.resizeTimeout)
    IN [setTimeout(c, debounceDelay) EXCEPT !.resizeTimeout = c.timerNext]

\* the callback the 'resize' listener hands to setTimeout
onResizeTimeout(w, seeds) == createParticles(resize(w), seeds)

\* the 'visibilitychange' listener, isHidden the new document.hidden
onVisibilityChange(w, isHidden) == IF isHidden THEN stop(w) ELSE start(w)

handleMouseDown(w, e) ==
    [w EXCEPT !.mouse.isDown = TRUE, !.mouse.x = {e[1]}, !.mouse.y = {e[2]}]

handleMouseMove(w, e) ==
    [w EXCEPT !.mouse.x = {e[1]}, !.mouse.y = {e[2]}]

\* a release that forgets the position, as ParticleNetwork's 'mouseout' does
handleMouseUpClearing(w) ==
    [w EXCEPT !.mouse.isDown = FALSE, !.mouse.x = null, !.mouse.y = null]

handleMouseUp(w) == [w EXCEPT !.mouse.isDown = FALSE]

\* touches is e.touches, a sequence of positions
handleTouchStart(w, touches) ==
    IF Len(touches) > 0 THEN handleMouseDown(w, touches[1]) ELSE w

handleTouchMove(w, touches) ==
    IF Len(touches) > 0 THEN handleMouseMove(w, touches[1]) ELSE w

\* ParticleNetwork's 'mouseout' listener
onMouseOut(w) == [w EXCEPT !.mouse.x = null, !.mouse.y = null]

(***************************************************************************)
(* init().                                                                 *)
(***************************************************************************)
\* init() whose reduced-motion branch does not return
initWithoutReturn(w, seeds) ==
    animate([bindEvents(createParticles(resize(
                IF reducedMotion THEN [w EXCEPT !.canvas.display = "none"] ELSE w),
             seeds)) EXCEPT !.isRunning = TRUE])

init(w, seeds) ==
    IF reducedMotion
    THEN [w EXCEPT !.canvas.display = "none"]
    ELSE animate([bindEvents(createParticles(resize(w), seeds))
                    EXCEPT !.isRunning = TRUE])

(***************************************************************************)
(* The state after construction.                                           *)
(***************************************************************************)
NoBurst == [events |-> 0, reseeds |-> 0, last |-> null, late |-> FALSE]

\* the size of a canvas element that sets none
DefaultCanvas == [width |-> 300, height |-> 150, display |-> ""]

InitSim ==
    /\ cls \in Classes
    /\ reducedMotion \in BOOLEAN
    /\ hidden \in BOOLEAN
    /\ win \in WindowSizes
    /\ now = 0
    /\ pc = "constructed"
    /\ canvas = DefaultCanvas
    /\ particles = <<>>
    /\ mouse = [x |-> null, y |-> null, isDown |-> FALSE, radius |-> mouseRadius]
    /\ animationId = 0
    /\ isRunning = FALSE
    /\ resizeTimeout = 0
    /\ listeners = FALSE
    /\ rafCallbacks = {}
    /\ rafNext = 1
    /\ timers = {}
    /\ timerNext = 1
    /\ stepCount = 0
    /\ stepIn = "none"
    /\ call = NoCall
    /\ burst = NoBurst
    /\ lastStep = <<>>
    /\ vis = [last |-> "none", everHidden |-> FALSE]
    /\ rendered = <<>>

(***************************************************************************)
(* Actions of the page: what the browser delivers.                         *)
(***************************************************************************)
\* a timeout that is due runs before the clock moves on and before the next
\* resize event of the same instant
NoTimerDue == \A t \in timers : now < t.due

\* DOMContentLoaded: initParticles() constructs the instance and calls init()
Load ==
    /\ pc = "constructed"
    /\ pc' = "initialized"
    /\ \E seeds \in SeedChoices : Commit(init(Enter("init"), seeds))
    /\ UNCHANGED <<cls, reducedMotion, hidden, win, now, scrollVars>>

\* a display refresh runs one pending animation frame callback
Frame ==
    /\ stepCount < MaxSteps \/ ~isRunning
    /\ \E id \in rafCallbacks :
          Commit(animate([Enter("frame") EXCEPT !.rafCallbacks = @ \ {id}]))
    /\ UNCHANGED <<envVars, scrollVars>>

MouseDown ==
    /\ listeners /\ cls = "ParticlePhysics"
    /\ \E e \in PointerPositions : Commit(handleMouseDown(Enter("mousedown"), e))
    /\ UNCHANGED <<envVars, scrollVars>>

MouseMove ==
    /\ listeners
    /\ \E e \in PointerPositions : Commit(handleMouseMove(Enter("mousemove"), e))
    /\ UNCHANGED <<envVars, scrollVars>>

\* 'mouseup', 'mouseleave' and 'touchend' all run handleMouseUp
MouseUp ==
    /\ listeners /\ cls = "ParticlePhysics"
    /\ \E ev \in {"mouseup", "mouseleave", "touchend"} : Commit(handleMouseUp(Enter(ev)))
    /\ UNCHANGED <<envVars, scrollVars>>

TouchLists == {<<>>} \cup {<<e>> : e \in PointerPositions}

TouchStart ==
    /\ listeners /\ cls = "ParticlePhysics"
    /\ \E t \in TouchLists : Commit(handleTouchStart(Enter("touchstart"), t))
    /\ UNCHANGED <<envVars, scrollVars>>

TouchMove ==
    /\ listeners /\ cls = "ParticlePhysics"
    /\ \E t \in TouchLists : Commit(handleTouchMove(Enter("touchmove"), t))
    /\ UNCHANGED <<envVars, scrollVars>>

MouseOut ==
    /\ listeners /\ cls = "ParticleNetwork"
    /\ Commit(onMouseOut(Enter("mouseout")))
    /\ UNCHANGED <<envVars, scrollVars>>

\* the burst history after a resize event handled at time now
BurstAfterResize ==
    IF burst.last # null /\ now - Val(burst.last) < debounceDelay
    THEN [burst EXCEPT !.events = @ + 1, !.last = {now},
                       !.late = @ \/ burst.reseeds > 0]
    ELSE [events |-> 1, reseeds |-> 0, last |-> {now}, late |-> FALSE]

\* the window is resized
Resize ==
    /\ NoTimerDue
    /\ timerNext <= MaxTimers
    /\ win' \in WindowSizes
    /\ IF listeners
       THEN Commit([onResize(Enter("resize")) EXCEPT !.burst = BurstAfterResize])
       ELSE Commit(Enter("resize"))
    /\ UNCHANGED <<cls, reducedMotion, hidden, now, pc, scrollVars>>

\* a timeout that is due runs its callback
Timeout ==
    /\ \E t \in timers :
          /\ t.due <= now
          /\ \E seeds \in SeedChoices :
                Commit(onResizeTimeout(
                    [Enter("timeout") EXCEPT !.timers = @ \ {t},
                                             !.burst.reseeds = @ + 1], seeds))
    /\ UNCHANGED <<envVars, scrollVars>>

\* the tab is hidden or shown
VisibilityChange ==
    /\ hidden' = ~hidden
    /\ IF listeners
       THEN /\ stepCount < MaxSteps \/ ~hidden \/ isRunning
            /\ Commit(onVisibilityChange(
                   [Enter("visibilitychange") EXCEPT
                       !.call = [name |-> IF ~hidden THEN "stop" ELSE "start",
                                 wasRunning |-> isRunning],
                       !.vis = [last |-> IF ~hidden THEN "hidden" ELSE "visible",
                                everHidden |-> @.everHidden \/ ~hidden]], ~hidden))
       ELSE Commit(Enter("visibilitychange"))
    /\ UNCHANGED <<cls, reducedMotion, win, now, pc, scrollVars>>

\* the clock advances; it is observed while a timeout is pending
Tick ==
    /\ now < MaxTime
    /\ timers # {}
    /\ NoTimerDue
    /\ now' = now + TickMs
    /\ call' = NoCall
    /\ UNCHANGED <<cls, reducedMotion, hidden, win, pc, simVars, browserVars,
                   stepCount, stepIn, burst, lastStep, vis, rendered, scrollVars>>

(***************************************************************************)
(* Actions of an owner of the instance: the public methods.                *)
(***************************************************************************)
CallStart ==
    /\ pc = "initialized"
    /\ stepCount < MaxSteps \/ isRunning
    /\ Commit(start([Enter("start") EXCEPT !.call =
                        [name |-> "start", wasRunning |-> isRunning]]))
    /\ UNCHANGED <<envVars, scrollVars>>

CallStop ==
    /\ pc = "initialized"
    /\ Commit(stop([Enter("stop") EXCEPT !.call =
                        [name |-> "stop", wasRunning |-> isRunning]]))
    /\ UNCHANGED <<envVars, scrollVars>>

(***************************************************************************)
(* ScrollAnimator.  The document has elements carrying the data-animate    *)
(* attribute, the class timeline, or both; an IntersectionObserver keeps   *)
(* its targets, what it last computed for each and a queue of entries,     *)
(* which the browser hands to the callback in one batch.                   *)
(***************************************************************************)
Observers == {"observer", "timelineObserver"}

Elements == {"card", "timeline", "entry"}

\* document.querySelectorAll('[data-animate]') and ('.timeline')
dataAnimate == {"card", "entry"}
timelineClass == {"timeline", "entry"}

\* what a method of ScrollAnimator and a callback may touch
Dom ==
    [elVisible |-> elVisible, observing |-> observing, reveals |-> reveals]

\* el.classList.add('visible')
classListAdd(d, el) ==
    [d EXCEPT !.elVisible = @ \cup {el},
              !.reveals[el] = IF el \in d.elVisible THEN @ ELSE @ + 1]

\* observer.observe(el) and observer.unobserve(el)
observe(d, o, el) == [d EXCEPT !.observing[o] = @ \cup {el}]
unobserve(d, o, el) == [d EXCEPT !.observing[o] = @ \ {el}]

\* the body of the forEach of a callback that keeps observing its target
onEntryWithoutUnobserve(d, o, entry) ==
    IF entry.isIntersecting THEN classListAdd(d, entry.target) ELSE d

\* the body of the forEach of the callbacks of setupObserver and
\* setupTimelineObserver
onEntry(d, o, entry) ==
    IF entry.isIntersecting
    THEN unobserve(classListAdd(d, entry.target), o, entry.target)
    ELSE d

\* the callback of observer o on a batch of entries
RECURSIVE observerCallback(_, _, _)
observerCallback(d, o, entries) ==
    IF entries = <<>> THEN d
    ELSE observerCallback(onEntry(d, o, Head(entries)), o, Tail(entries))

\* f applied to every element of the set els, in some order
RECURSIVE forEachIn(_, _, _)
forEachIn(d, els, o) ==
    IF els = {} THEN d
    ELSE forEachIn(IF o = "none" THEN classListAdd(d, Val(els))
                   ELSE observe(d, o, Val(els)),
                   els \ {Val(els)}, o)

observeElements(d) ==
    forEachIn(forEachIn(d, dataAnimate, "observer"), timelineClass, "timelineObserver")

\* ScrollAnimator.init()
scrollInit(d) ==
    IF reducedMotion
    THEN forEachIn(forEachIn(d, dataAnimate, "none"), timelineClass, "none")
    ELSE observeElements(d)

CommitDom(d) ==
    /\ elVisible' = d.elVisible
    /\ observing' = d.observing
    /\ reveals' = d.reveals

InitScroll ==
    /\ saPc = "constructed"
    /\ elVisible = {}
    /\ observing = [o \in Observers |-> {}]
    /\ intersecting = [o \in Observers |-> [el \in Elements |-> "unknown"]]
    /\ ioQueue = [o \in Observers |-> <<>>]
    /\ reveals = [el \in Elements |-> 0]
    /\ seen = [o \in Observers |-> {}]

\* DOMContentLoaded: initScrollAnimations() constructs the animator and calls
\* init()
ScrollLoad ==
    /\ saPc = "constructed"
    /\ saPc' = "initialized"
    /\ CommitDom(scrollInit(Dom))
    /\ UNCHANGED <<intersecting, ioQueue, seen, simVars, envVars, browserVars, histVars>>

\* the browser recomputes the intersection of a target of an observer with
\* respect to that observer's threshold and margin, finds it changed (or
\* computes it for the first time) and queues an entry
IntersectionChange ==
    /\ \E o \in Observers : \E el \in observing[o] : \E b \in BOOLEAN :
          /\ Len(ioQueue[o]) < MaxQueue
          /\ intersecting[o][el] # (IF b THEN "in" ELSE "out")
          /\ intersecting' = [intersecting EXCEPT ![o][el] = IF b THEN "in" ELSE "out"]
          /\ ioQueue' = [ioQueue EXCEPT
                            ![o] = Append(@, [target |-> el, isIntersecting |-> b])]
    /\ UNCHANGED <<saPc, elVisible, observing, reveals, seen,
                   simVars, envVars, browserVars, histVars>>

\* the browser takes the queued entries of an observer and runs its callback
ObserverCallback ==
    /\ \E o \in Observers :
          /\ ioQueue[o] # <<>>
          /\ ioQueue' = [ioQueue EXCEPT ![o] = <<>>]
          /\ CommitDom(observerCallback(Dom, o, ioQueue[o]))
          /\ seen' = [seen EXCEPT ![o] = @ \cup
                        {ioQueue[o][k].target : k \in
                            {j \in 1..Len(ioQueue[o]) : ioQueue[o][j].isIntersecting}}]
    /\ UNCHANGED <<saPc, intersecting, simVars, envVars, browserVars, histVars>>

\* an owner calls destroy()
CallDestroy ==
    /\ pc = "initialized"
    /\ pc' = "destroyed"
    /\ Commit(destroy(Enter("destroy")))
    /\ UNCHANGED <<cls, reducedMotion, hidden, win, now, scrollVars>>

Init == InitSim /\ InitScroll

\* the page before DOMContentLoaded, as the scroll animator sees it
InitScrollPage ==
    /\ Init
    /\ cls = "ParticlePhysics"
    /\ ~hidden
    /\ win.innerWidth = win.innerHeight

NextScroll ==
    \/ ScrollLoad
    \/ IntersectionChange
    \/ ObserverCallback

SpecScroll == InitScrollPage /\ [][NextScroll]_vars

Next ==
    \/ Load
    \/ Frame
    \/ MouseDown
    \/ MouseMove
    \/ MouseUp
    \/ TouchStart
    \/ TouchMove
    \/ MouseOut
    \/ Resize
    \/ Timeout
    \/ VisibilityChange
    \/ Tick

Spec == Init /\ [][Next]_vars

\* the page's events that start(), stop() and the frames depend on, and the
\* calls of an owner
NextAPI ==
    \/ Load
    \/ Frame
    \/ MouseDown
    \/ Resize
    \/ Timeout
    \/ Tick
    \/ VisibilityChange
    \/ CallStart
    \/ CallStop

SpecAPI == Init /\ [][NextAPI]_vars

\* the page's events, and an owner that calls destroy() at some point
NextDestroy == Next \/ CallDestroy

SpecDestroy == Init /\ [][NextDestroy]_vars

(***************************************************************************)
(* The simulation in the middle of a session.  A behaviour of Spec runs    *)
(* MaxSteps steps from construction and its particles stay slow; SpecStep  *)
(* starts from a ParticlePhysics instance that has been running for a      *)
(* while: particles anywhere in the canvas, at any velocity up to          *)
(* maxSpeed, the listeners bound and one frame callback pending.           *)
(***************************************************************************)
\* <<x, y, vx, vy, draws>> of a particle in the middle of a session: where
\* it is, how fast, and the draws that seeded it
MidSession ==
    << <<5000, 5000, 0, 0, CornerDraws>>,      \* at rest under the pointer
       <<5000, 4700, 0, 790, MiddleDraws>>,    \* fast, toward the pointer and the bottom edge
       <<100, 100, -560, -560, MiddleDraws>>,  \* fast, into the top left corner
       <<8000, 2000, 30, -40, CornerDraws>>,   \* slow, near the pointer
       <<25000, 2000, 0, 0, MiddleDraws>> >>   \* at rest, out of the pointer's reach

\* the particle of the session state s
MidParticle(cv, s) ==
    [PhysicsParticle(cv, s[5]) EXCEPT !.x = s[1], !.y = s[2], !.vx = s[3], !.vy = s[4]]

\* the session states that lie in the canvas
MidStates(cv) ==
    LET fits(t) == t[1] <= cv.width * Scale /\ t[2] <= cv.height * Scale
    IN SelectSeq(MidSession, fits)

\* the collections of the middle of a session: consecutive session states,
\* starting with any of them
MidCollections(cv) ==
    { [i \in 1..particleCount |->
          MidParticle(cv, MidStates(cv)[((i + k) % Len(MidStates(cv))) + 1])] :
          k \in 1..Len(MidStates(cv)) }

InitStep ==
    /\ cls = "ParticlePhysics"
    /\ reducedMotion = FALSE
    /\ hidden = FALSE
    /\ win \in WindowSizes
    /\ now = 0
    /\ pc = "initialized"
    /\ canvas = [width |-> win.innerWidth, height |-> win.innerHeight, display |-> ""]
    /\ particles \in MidCollections(canvas)
    /\ mouse = [x |-> null, y |-> null, isDown |-> FALSE, radius |-> mouseRadius]
    /\ animationId = 1
    /\ isRunning = TRUE
    /\ resizeTimeout = 0
    /\ listeners = TRUE
    /\ rafCallbacks = {1}
    /\ rafNext = 2
    /\ timers = {}
    /\ timerNext = 1
    /\ stepCount = 0
    /\ stepIn = "none"
    /\ call = NoCall
    /\ burst = NoBurst
    /\ lastStep = <<>>
    /\ vis = [last |-> "none", everHidden |-> FALSE]
    /\ rendered = <<>>
    /\ InitScroll

NextStep ==
    \/ Frame
    \/ MouseDown
    \/ MouseMove
    \/ MouseUp
    \/ TouchStart
    \/ TouchMove
    \/ Resize
    \/ Timeout
    \/ Tick

SpecStep == InitStep /\ [][NextStep]_vars

(***************************************************************************)
(* Claims about the frame loop and the listeners.                          *)
(***************************************************************************)
\* what a method call can change: the instance, the browser's callback and
\* timer lists, and the number of steps run
methodVars == <<simVars, browserVars, stepCount>>

\* C1: start() on a running loop and stop() on a stopped loop change no
\* state: no field of the instance, no pending frame callback or timeout,
\* and no step runs.
C1_StartStopIdempotent ==
    [][ /\ (call'.name = "start" /\ call'.wasRunning) => UNCHANGED methodVars
        /\ (call'.name = "stop" /\ ~call'.wasRunning) => UNCHANGED methodVars ]_vars

\* start() has just been called on a running loop, which has a frame pending
C1_Witness ==
    /\ call.name = "start" /\ call.wasRunning
    /\ isRunning /\ rafCallbacks # {} /\ stepCount > 0

\* C2: after a visibilitychange event that hides the document the loop is
\* stopped, no frame callback is pending and no step runs until the next
\* event that shows it; after that event the loop runs with its frame
\* callback pending, and every display refresh runs one step and requests
\* the next frame.
C2_HiddenState == vis.last = "hidden" => ~isRunning /\ rafCallbacks = {}

C2_VisibleState == vis.last = "visible" => isRunning /\ rafCallbacks = {animationId}

C2_VisibilityCancels ==
    /\ [](C2_HiddenState /\ C2_VisibleState)
    /\ [][ /\ (vis.last = "hidden" /\ vis'.last = "hidden") => stepCount' = stepCount
           /\ (vis.last = "visible" /\ vis'.last = "visible"
                 /\ rafCallbacks' # rafCallbacks)
              => /\ stepCount' = stepCount + 1
                 /\ stepIn' = "frame"
                 /\ rafCallbacks' = {animationId'} ]_vars

\* the document was hidden and shown again, and a display refresh has run a
\* step since
C2_Witness ==
    /\ vis.last = "visible" /\ vis.everHidden
    /\ stepIn = "frame" /\ stepCount >= 3

\* C3: with the reduced-motion preference set, init() hides the canvas and
\* does nothing else: no particle, no listener, no frame callback, no
\* timeout, and no step ever runs, whatever events follow.
C3_ReducedMotionDisables ==
    (reducedMotion /\ pc = "initialized") =>
        /\ canvas.display = "none"
        /\ particles = <<>>
        /\ ~listeners
        /\ ~isRunning /\ animationId = 0 /\ rafCallbacks = {}
        /\ timers = {}
        /\ stepCount = 0
        /\ mouse.x = null /\ mouse.y = null

\* init() has run under reduced motion, and the window has been resized since
C3_Witness ==
    /\ reducedMotion /\ pc = "initialized"
    /\ <<win.innerWidth, win.innerHeight>> # <<canvas.width, canvas.height>>
    /\ canvas.display = "none"

\* the particle collection a re-seed leaves
Fresh(ps) ==
    /\ Len(ps) = particleCount
    /\ cls = "ParticlePhysics" =>
          \A i \in 1..Len(ps) :
              /\ ps[i].vx = 0 /\ ps[i].vy = 0
              /\ ps[i].x = ps[i].originX /\ ps[i].y = ps[i].originY

\* C4: a burst of resize events, each less than the debounce delay after
\* the previous one, causes exactly one re-seed, after its last event: no
\* event of the burst arrives after a re-seed of that burst, at most one
\* re-seed has happened, and exactly one timeout is pending until it has.
\* The re-seed sets the canvas to the window's size and replaces the whole
\* collection by particleCount fresh particles (in ParticlePhysics at rest
\* at their origins).
C4_BurstState ==
    burst.events > 0 =>
        /\ ~burst.late
        /\ \/ burst.reseeds = 0 /\ Cardinality(timers) = 1
           \/ burst.reseeds = 1 /\ timers = {}

C4_ResizeDebounced ==
    /\ []C4_BurstState
    /\ [][ burst'.reseeds = burst.reseeds + 1 =>
              /\ canvas'.width = win.innerWidth
              /\ canvas'.height = win.innerHeight
              /\ Fresh(particles') ]_vars

\* a burst of two resize events has had its re-seed
C4_Witness == burst.events >= 2 /\ burst.reseeds = 1 /\ timers = {}

(***************************************************************************)
(* Claims about the physics step.                                          *)
(***************************************************************************)
\* C5: at the end of every step, and so in every state between steps,
\* whatever pointer, touch and resize events are interleaved, the speed
\* sqrt(vx^2 + vy^2) of every particle is at most maxSpeed.
C5_ClampInvariant ==
    \A i \in 1..Len(particles) :
        Speed(particles[i].vx, particles[i].vy) <= maxSpeed * Scale

\* the last step limited the speed of a particle and then bounced that
\* particle off an edge of the canvas
C5_Witness ==
    /\ stepCount > 0 /\ Len(lastStep) = Len(particles)
    /\ \E i \in 1..Len(lastStep) :
          /\ lastStep[i].speed > maxSpeed * Scale
          /\ lastStep[i].y > canvas.height * Scale
          /\ particles[i].y = canvas.height * Scale
          /\ particles[i].vy < 0

\* C6 as stated: between steps every particle lies within the canvas.
InCanvas(p) ==
    /\ 0 <= p.x /\ p.x <= canvas.width * Scale
    /\ 0 <= p.y /\ p.y <= canvas.height * Scale

C6_Original ==
    \A i \in 1..Len(particles) :
        /\ cls = "ParticleNetwork" => particles[i].nan # 2
        /\ InCanvas(particles[i])

\* the pointer's increment f points along s times the particle-to-pointer
\* vector (f.dx, f.dy): no component has the other sign, and the increment
\* is parallel to the vector up to the rounding of its two components
Along(f, s) ==
    /\ Sign(f.ix) \in {0, s * Sign(f.dx)}
    /\ Sign(f.iy) \in {0, s * Sign(f.dy)}
    /\ Abs(f.ix * f.dy - f.iy * f.dx) <= 2 * (Abs(f.dx) + Abs(f.dy))

Norm2(f) == f.ix * f.ix + f.iy * f.iy

\* the increments the pointer, where it is, would give particle p when
\* engaged and when disengaged
engaged(p) == mouseForce(p, [mouse EXCEPT !.isDown = TRUE])
disengaged(p) == mouseForce(p, [mouse EXCEPT !.isDown = FALSE])

\* C9: for a particle at a distance d, 0 < d < radius, from a present
\* pointer, the pointer's velocity increment points along the
\* particle-to-pointer vector when the pointer is engaged and along the
\* opposite direction when it is not, and the disengaged increment is the
\* smaller one (both are zero where the fixed point rounds them to zero).
C9_ForceDirection ==
    \A i \in 1..Len(particles) :
        (engaged(particles[i]).within /\ engaged(particles[i]).distance > 0) =>
            /\ disengaged(particles[i]).within
            /\ Along(engaged(particles[i]), 1)
            /\ Along(disengaged(particles[i]), -1)
            /\ \/ Norm2(disengaged(particles[i])) < Norm2(engaged(particles[i]))
               \/ Norm2(engaged(particles[i])) = 0

\* the last step pushed a particle away from a disengaged pointer, and an
\* engaged pointer would now pull that particle
C9_Witness ==
    /\ stepCount > 0 /\ Len(lastStep) = Len(particles)
    /\ \E i \in 1..Len(lastStep) :
          /\ lastStep[i].pointer.within /\ ~lastStep[i].pointer.isDown
          /\ lastStep[i].pointer.distance > 0
          /\ Norm2(lastStep[i].pointer) > 0
          /\ engaged(particles[i]).within
          /\ Norm2(engaged(particles[i])) > Norm2(disengaged(particles[i]))
          /\ Norm2(disengaged(particles[i])) > 0

\* C10 as stated: a step with the pointer engaged at distance 0 from a
\* particle adds to its velocity an increment of the greatest magnitude the
\* falloff allows, directed toward the pointer.
C10_Original ==
    \A i \in 1..Len(lastStep) :
        (lastStep[i].pointer.within /\ lastStep[i].pointer.isDown
            /\ lastStep[i].pointer.distance = 0) =>
            /\ Norm2(lastStep[i].pointer)
                  = Norm2([ix |-> attract(1000, 0, particles[i].mass)[1], iy |-> 0])
            /\ lastStep[i].pointer.ix * lastStep[i].pointer.dx
                  + lastStep[i].pointer.iy * lastStep[i].pointer.dy > 0

(***************************************************************************)
(* Claims about the scroll reveal observer.                                *)
(***************************************************************************)
QueuedFor(o, el) == \E k \in 1..Len(ioQueue[o]) : ioQueue[o][k].target = el

\* C7: an observed element carries the visible flag exactly from the first
\* delivery of an entry that reports it as intersecting; the flag goes from
\* false to true once and is never removed; and the observer whose callback
\* received that entry no longer has the element as a target, has no entry
\* queued for it, and computes no further intersection change for it.
C7_State ==
    /\ \A el \in Elements :
          /\ reveals[el] <= 1
          /\ reveals[el] = 1 <=> el \in elVisible
    /\ ~reducedMotion => elVisible = UNION {seen[o] : o \in Observers}
    /\ \A o \in Observers : \A el \in seen[o] :
          el \notin observing[o] /\ ~QueuedFor(o, el)

C11_Original ==
    \A k \in 1..Len(rendered) : rendered[k].at = Positions(particles)

\* what a step must leave alone in a particle
Fixed(p) ==
    [originX |-> p.originX, originY |-> p.originY, radius |-> p.radius,
     mass |-> p.mass, hue |-> p.hue, opacity |-> p.opacity, phase |-> p.phase]

\* C12: a physics step of ParticlePhysics changes only x, y, vx and vy of
\* the particles: the number of particles, every particle's origin, radius,
\* mass, hue, opacity and phase, the pointer state (position, engaged flag,
\* radius), the canvas, the running flag and the pending timeouts are what
\* they were before the step.
C12_FrameEffect ==
    [][ stepCount' # stepCount =>
          /\ Len(particles') = Len(particles)
          /\ \A i \in 1..Len(particles) : Fixed(particles'[i]) = Fixed(particles[i])
          /\ mouse' = mouse
          /\ canvas' = canvas
          /\ isRunning' = isRunning /\ listeners' = listeners
          /\ resizeTimeout' = resizeTimeout /\ timers' = timers ]_vars

\* a step has run with the pointer present and engaged, and has changed the
\* position and the velocity of a particle that is away from its origin
C12_Witness ==
    /\ stepCount > 0 /\ Len(lastStep) = Len(particles)
    /\ mouse.x # null /\ mouse.isDown /\ mouse.radius = mouseRadius
    /\ \E i \in 1..Len(particles) :
          /\ lastStep[i].pointer.within
          /\ lastStep[i].vx # 0
          /\ particles[i].x # particles[i].originX

\* C13 as stated: once destroy() has run, whatever events the browser
\* delivers, the loop stays stopped with no frame callback pending and the
\* collection stays empty.
C13_Original ==
    pc = "destroyed" => ~isRunning /\ rafCallbacks = {} /\ particles = <<>>

\* C14: whatever frame callbacks, start() and stop() calls and visibility
\* events follow init(), at most one frame callback is pending, the pending
\* one is the one animationId records, and none is pending while isRunning
\* is false.
C14_SingleLoop ==
    /\ Cardinality(rafCallbacks) <= 1
    /\ \A id \in rafCallbacks : id = animationId
    /\ ~isRunning => rafCallbacks = {}

\* the loop has been stopped after init() and started again by start(), and
\* has one frame pending
C14_Witness ==
    /\ pc = "initialized" /\ ~reducedMotion
    /\ call.name = "start" /\ ~call.wasRunning
    /\ isRunning /\ animationId >= 2 /\ rafCallbacks = {animationId}

(***************************************************************************)
(* Claims about the handlers.                                              *)
(***************************************************************************)
\* C15: in ParticlePhysics the pointer position is present from the first
\* event that sets it: x is null exactly when y is, an engaged pointer has a
\* position, no event makes a present position absent, a release clears the
\* engaged flag and keeps the position, and every step taken with a present,
\* disengaged pointer applies the disengaged force of that position to every
\* particle.
C15_PointerState ==
    /\ mouse.x = null <=> mouse.y = null
    /\ mouse.isDown => mouse.x # null

C15_PointerKept ==
    /\ []C15_PointerState
    /\ [][ /\ mouse.x # null => mouse'.x # null /\ mouse'.y # null
           /\ (mouse.isDown /\ ~mouse'.isDown) => mouse'.x = mouse.x /\ mouse'.y = mouse.y
           /\ (stepCount' # stepCount /\ mouse.x # null /\ ~mouse.isDown) =>
                 \A i \in 1..Len(particles) :
                     lastStep'[i].pointer = disengaged(particles[i]) ]_vars

\* the last step ran with the pointer engaged; the pointer has been released
\* since and still has its position
C15_Witness ==
    /\ stepCount > 0 /\ Len(lastStep) = Len(particles) /\ Len(particles) > 0
    /\ lastStep[1].pointer.isDown
    /\ ~mouse.isDown /\ mouse.x # null /\ mouse.y # null

\* C8 as stated: no step (and no render pass) runs inside an input event
\* handler; steps run in init()'s first frame and in display-refresh callbacks.
C8_Original == stepIn \in {"none", "init", "frame"}

====
